---- MODULE Spec2Model ----
(***************************************************************************)
(* A model of the scene/UI composition layer of RGame:                     *)
(*   SceneManager  (src/src/AnimatedTexture.cpp 213-273, the variant that  *)
(*                  signals NotFound; src/unnamed/part_005 126-171, the    *)
(*                  variant that falls back to a static empty scene)       *)
(*   Scene         (src/src/AnimatedTexture.cpp 99-206)                    *)
(*   UIContainer / UIElement (src/unnamed/part_004 148-296)                *)
(*   AnimatedTexture (src/src/AnimatedTexture.cpp 1-94)                    *)
(* Objects on the heap are numbers; an object number is never reused, so a *)
(* pointer to a destroyed object is recognisably dangling.                 *)
(***************************************************************************)
EXTENDS Integers, Sequences, FiniteSets, TLC

\* ------------------------------------------------------------------------
\* Bounds of the model
\* ------------------------------------------------------------------------
\* Scene objects the caller creates with new Scene() and hands to AddScene
MaxSceneObj == 3
\* UIElement objects the caller creates and hands to UIContainer::AddElement
MaxElemObj == 3
\* Objects the caller creates and hands to a Scene (UIContainers through
\* Scene::AddUi, GameObjects through Scene::AddObject) or to the UIContainers
\* of the Scene (UIElements through UIContainer::AddElement), all together
MaxSceneChildren == 5
\* The latest reading of std::chrono::steady_clock the model lets time reach,
\* in milliseconds since the AnimatedTexture was constructed
MaxClock == 7

\* ------------------------------------------------------------------------
\* Program constants and conventions
\* ------------------------------------------------------------------------
MIN_DRAW_ORDER == -100
MAX_DRAW_ORDER == 100

\* The null pointer (what std::map::operator[] value-initialises a slot to)
Null == 0
\* Outcome of a call through a dangling pointer when it faults
Crash == -1
\* SceneManager::emptyScene, the static sentinel of the fallback variant
EmptyScene == 100
\* The scene the NotFound variant's constructor creates as "scene_default"
DefaultScene == 101

\* What a lookup that calls ThrowNotFoundException yields instead of a reference
NotFound == -2

SceneIds == {"scene_default", "a", "b"}

\* The ids used for UI elements, in the order std::map<std::string, ...> keeps
\* its keys (lexicographic), which is the order its iteration visits them
ElemIdSeq == <<"a", "b">>
ElemIds == {ElemIdSeq[i] : i \in 1..Len(ElemIdSeq)}

\* The int arguments tried for SetDrawOrder (32-bit int, both ends included)
OrderInputs == {-2147483647 - 1, -101, 0, 100, 2147483647}
\* The int arguments tried for the container's own SetDrawOrder
ContainerOrderInputs == {-101, 101}
\* The int arguments tried for SetDrawOrder on a UIContainer owned by a Scene
SceneOrderInputs == {-100, 100, 101}

\* The frame_count and fps arguments tried for the AnimatedTexture constructor
\* (fps 500 gives 2 ms per frame, fps 2000 gives 0 ms per frame)
FrameCountInputs == {1, 2, 3}
FpsInputs == {500, 2000}

\* The functions handed to Button::DefineOnPressCallback
CallbackInputs == {"DefaultCallback", "OnClick"}

\* The frame_count and fps arguments tried where Update() is polled at a fixed
\* period (fps 10 gives 100 ms per frame, fps 60 gives 16 ms per frame), the
\* polling periods tried, in ms, and how many polling instants a run covers
PollFrameCountInputs == {2, 4}
PollFpsInputs == {10, 60}
PollPeriods == {16}
MaxPolls == 16

VARIABLES
    variant,      \* "NotFound" (AnimatedTexture.cpp) or "Sentinel" (part_005)
    scenes,       \* SceneManager::scenes : id -> Scene*
    activeScene,  \* SceneManager::activeScene
    sceneLive,    \* the Scene objects constructed and not yet destroyed
    sceneCount,   \* how many Scene objects the caller has created so far
    smLast,       \* the last SceneManager call and what it did
    smAdded,      \* id -> the scene handed to AddScene under a then-fresh id
    smExpect      \* the scene the caller made active by AddScene + LoadScene

smVars == <<variant, scenes, activeScene, sceneLive, sceneCount, smLast,
            smAdded, smExpect>>

VARIABLES
    elements,     \* UIContainer::elements : id -> UIElement*
    cDrawOrder,   \* UIContainer::draw_order
    elem,         \* live UIElement objects: draw_order, active, enabled
    elemCount,    \* how many UIElement objects the caller has created so far
    uiLast,       \* the last UIContainer / UIElement call and what it did
    uiAdded,      \* id -> the element handed to AddElement under a then-unused
                  \* id and not removed since (the caller's own bookkeeping)
    uiGone        \* the ids passed to RemoveElement and not added again since

uiVars == <<elements, cDrawOrder, elem, elemCount, uiLast, uiAdded, uiGone>>

VARIABLES
    sceneAlive,   \* the Scene has been constructed and not destroyed
    interfaces,   \* Scene::interfaces : id -> UIContainer*
    objects,      \* Scene::objects : id -> GameObject*
    contElems,    \* the elements map of each live UIContainer of the Scene
    created,      \* how many objects of each kind the caller has created
    destroyed,    \* object -> how many times its destructor has run
    handed,       \* object handed over under a then-unused id -> its owner
    removed,      \* the objects whose id was passed to a Remove call
    contOrder,    \* the draw_order of each live UIContainer of the Scene
    scLast        \* the last Scene call and what it did

scVars == <<sceneAlive, interfaces, objects, contElems, created, destroyed,
            handed, removed, contOrder, scLast>>

VARIABLES
    tex,          \* the AnimatedTexture: frame_count (frames.size()),
                  \* ms_per_frame, last_frame_change, current_frame, loop, play,
                  \* initialized
    clock,        \* what std::chrono::steady_clock::now() returns, in ms
    texCtor,      \* the constructor that built the texture: "default" or "args"
    texInitCalled,\* Initialize() has been called
    texPlayCalled,\* Play() or Resume() has been called
    texLast,      \* the last AnimatedTexture call, current_frame and play as
                  \* they were before it, and whether it issued a draw call
    texRun        \* the frame changes so far: how many Update() calls changed
                  \* the frame (advances), when the last one did (lastAt), the
                  \* time between the last two (gap), and the polling so far:
                  \* polls counts the instants at which Update() was called,
                  \* one call per instant and no instant left out, with
                  \* nothing else called but Initialize() before the first
                  \* (-1 once the run is no such polling), polled tells
                  \* whether the present instant has had its call

texVars == <<tex, clock, texCtor, texInitCalled, texPlayCalled, texLast, texRun>>

VARIABLES
    button,       \* the Button: hover, press, enabled (UIElement) and
                  \* callbackFunction (the name of the function it holds)
    mouse,        \* what the input library reports during the present frame:
                  \* inside (the cursor lies in the hitbox), down
                  \* (IsMouseButtonDown), pressed (IsMouseButtonPressed)
    btnPressWas,  \* press as it was when the last Update() began
    btnLast       \* the last Button call, the callback it invoked ("none" if
                  \* none) and what it returned

btnVars == <<button, mouse, btnPressWas, btnLast>>

vars == <<smVars, uiVars, scVars, texVars, btnVars>>

\* What a call on one component leaves alone: the other components
SMFrame == UNCHANGED <<uiVars, scVars, texVars, btnVars>>
UIFrame == UNCHANGED <<smVars, scVars, texVars, btnVars>>
SceneFrame == UNCHANGED <<smVars, uiVars, texVars, btnVars>>
TexFrame == UNCHANGED <<smVars, uiVars, scVars, btnVars>>
BtnFrame == UNCHANGED <<smVars, uiVars, scVars, texVars>>

\* ------------------------------------------------------------------------
\* std::map helpers
\* ------------------------------------------------------------------------
EmptyMap == [x \in {} |-> Null]

\* An insertion that replaces what k maps to (m[k] = v)
EmplaceOverwrites(m, k, v) == [x \in DOMAIN m \cup {k} |-> IF x = k THEN v ELSE m[x]]

\* std::map::emplace(k, v): inserts only when k is absent
Emplace(m, k, v) == IF k \in DOMAIN m THEN m ELSE m @@ (k :> v)

\* std::map::operator[](k): value-initialises the slot when k is absent
IndexOrInsert(m, k) == IF k \in DOMAIN m THEN m ELSE m @@ (k :> Null)

\* std::map::erase(k)
Erase(m, k) == [x \in DOMAIN m \ {k} |-> m[x]]

\* std::map::find(k) != end()
Found(m, k) == k \in DOMAIN m

\* ------------------------------------------------------------------------
\* SceneManager
\* ------------------------------------------------------------------------
SMCall(op, id, scene, ok, target, before, scenesBefore) ==
    [op |-> op, id |-> id, scene |-> scene, ok |-> ok, target |-> target,
     before |-> before, scenesBefore |-> scenesBefore]

\* What a call through activeScene reaches. Through a dangling pointer it is
\* undefined: the call may run on the freed object, on any other Scene whose
\* storage it now overlaps, or fault.
DerefTargets(p) ==
    IF p \in sceneLive THEN {p}
    ELSE {p, Crash} \cup sceneLive

SceneManager_Init ==
    /\ variant \in {"NotFound", "Sentinel"}
    /\ scenes = IF variant = "NotFound"
                THEN Emplace(EmptyMap, "scene_default", DefaultScene)
                ELSE EmptyMap
    /\ activeScene = IF variant = "NotFound"
                     THEN IndexOrInsert(scenes, "scene_default")["scene_default"]
                     ELSE EmptyScene
    /\ sceneLive = IF variant = "NotFound" THEN {DefaultScene} ELSE {EmptyScene}
    /\ sceneCount = 0
    /\ smLast = SMCall("SceneManager", "", Null, TRUE, Null, Null, EmptyMap)
    /\ smAdded = EmptyMap
    /\ smExpect = Null

\* AddScene(scene_id, new Scene())
SceneManager_AddScene(id) ==
    /\ sceneCount < MaxSceneObj
    /\ LET s == sceneCount + 1 IN
        /\ sceneCount' = s
        /\ sceneLive' = sceneLive \cup {s}
        /\ scenes' = Emplace(scenes, id, s)
        /\ smAdded' = IF Found(scenes, id) THEN smAdded
                      ELSE [x \in DOMAIN smAdded \cup {id} |->
                              IF x = id THEN s ELSE smAdded[x]]
        /\ smLast' = SMCall("AddScene", id, s, ~Found(scenes, id), Null,
                            activeScene, scenes)
    /\ UNCHANGED <<variant, activeScene, smExpect>>
    /\ SMFrame

\* RemoveScene exists only in the NotFound variant
SceneManager_RemoveScene(id) ==
    /\ variant = "NotFound"
    /\ IF Found(scenes, id)
       THEN /\ sceneLive' = sceneLive \ {scenes[id]}
            /\ scenes' = Erase(scenes, id)
       ELSE UNCHANGED <<sceneLive, scenes>>
    /\ smAdded' = Erase(smAdded, id)
    /\ smLast' = SMCall("RemoveScene", id, Null, Found(scenes, id), Null,
                        activeScene, scenes)
    /\ UNCHANGED <<variant, activeScene, sceneCount, smExpect>>
    /\ SMFrame

SceneManager_LoadScene(id) ==
    /\ IF ~Found(scenes, id)
       THEN IF variant = "NotFound"
            THEN UNCHANGED activeScene           \* ThrowNotFoundException
            ELSE activeScene' = EmptyScene       \* "Error! Empty scene loaded!"
       ELSE activeScene' = scenes[id]
    /\ smExpect' = IF ~Found(scenes, id) THEN smExpect
                   ELSE IF Found(smAdded, id) THEN smAdded[id] ELSE Null
    /\ smLast' = SMCall("LoadScene", id, Null, Found(scenes, id), Null,
                        activeScene, scenes)
    /\ UNCHANGED <<variant, scenes, sceneLive, sceneCount, smAdded>>
    /\ SMFrame

SceneManager_GetActiveScene ==
    /\ smLast' = SMCall("GetActiveScene", "", activeScene, TRUE, Null,
                        activeScene, scenes)
    /\ UNCHANGED <<variant, scenes, activeScene, sceneLive, sceneCount,
                   smAdded, smExpect>>
    /\ SMFrame

SceneManager_Draw ==
    /\ \E t \in DerefTargets(activeScene) :
          smLast' = SMCall("Draw", "", Null, TRUE, t, activeScene, scenes)
    /\ UNCHANGED <<variant, scenes, activeScene, sceneLive, sceneCount,
                   smAdded, smExpect>>
    /\ SMFrame

SceneManager_Update ==
    /\ \E t \in DerefTargets(activeScene) :
          smLast' = SMCall("Update", "", Null, TRUE, t, activeScene, scenes)
    /\ UNCHANGED <<variant, scenes, activeScene, sceneLive, sceneCount,
                   smAdded, smExpect>>
    /\ SMFrame

SceneManager_Next ==
    \/ \E id \in SceneIds : SceneManager_AddScene(id)
    \/ \E id \in SceneIds : SceneManager_RemoveScene(id)
    \/ \E id \in SceneIds : SceneManager_LoadScene(id)
    \/ SceneManager_GetActiveScene
    \/ SceneManager_Draw
    \/ SceneManager_Update

\* ------------------------------------------------------------------------
\* UIElement (the attributes every widget inherits)
\* ------------------------------------------------------------------------
\* UIElement::UIElement : draw_order(0), enabled(true), active(true)
UIElement_New == [draw_order |-> 0, active |-> TRUE, enabled |-> TRUE]

\* SetDrawOrder with the upper check left out
UIElement_ClampOrderNoUpper(order) ==
    IF order < MIN_DRAW_ORDER THEN MIN_DRAW_ORDER ELSE order

\* UIElement::SetDrawOrder : the value stored for argument _order
UIElement_ClampOrder(order) ==
    LET d0 == order
        d1 == IF d0 < MIN_DRAW_ORDER THEN MIN_DRAW_ORDER ELSE d0
        d2 == IF d1 > MAX_DRAW_ORDER THEN MAX_DRAW_ORDER ELSE d1
    IN d2

\* ------------------------------------------------------------------------
\* UIContainer
\* ------------------------------------------------------------------------
UICall(op, id, el, arg, result, fresh, drawn, updated, before) ==
    [op |-> op, id |-> id, elem |-> el, arg |-> arg, result |-> result,
     fresh |-> fresh, drawn |-> drawn, updated |-> updated, before |-> before]

NoLog == <<>>

\* The keys of m in the order a range-for over std::map visits them
IterationOrder(m) == SelectSeq(ElemIdSeq, LAMBDA k : k \in DOMAIN m)

\* GetElement written with operator[] in place of find
UIContainer_LookupByIndex(m, id) == IndexOrInsert(m, id)[id]

\* UIContainer::GetElement : find(id), the element or ThrowNotFoundException
UIContainer_Lookup(m, id) == IF Found(m, id) THEN m[id] ELSE NotFound

\* UIContainer::GetElement leaves the map as it is (find, not operator[])
UIContainer_AfterLookup(m, id) == m

\* Update gated on the enabled flag in place of the display state
UIContainer_UpdateCallsIfEnabled(m, attrs) ==
    LET gated == SelectSeq(IterationOrder(m),
                           LAMBDA k : attrs[m[k]].enabled)
    IN [i \in 1..Len(gated) |-> m[gated[i]]]

\* UIContainer::Update : the elements whose Update() runs, in call order
UIContainer_UpdateCalls(m, attrs) ==
    LET gated == SelectSeq(IterationOrder(m),
                           LAMBDA k : attrs[m[k]].active)
    IN [i \in 1..Len(gated) |-> m[gated[i]]]

\* UIContainer::Draw, inner loop : the elements drawn in the pass for order i
UIContainer_DrawPass(m, attrs, i) ==
    LET hit == SelectSeq(IterationOrder(m),
                         LAMBDA k : attrs[m[k]].draw_order = i
                                    /\ attrs[m[k]].active)
    IN [j \in 1..Len(hit) |-> m[hit[j]]]

\* UIContainer::Draw, loop condition : i < MAX_DRAW_ORDER
UIContainer_DrawLoopGoesOn(i) == i < MAX_DRAW_ORDER

\* UIContainer::Draw, outer loop : for (i = MIN_DRAW_ORDER; <condition>; i++),
\* the passes for lo..hi one after the other (the interval is halved only to
\* keep the evaluation shallow; the passes run in increasing i)
RECURSIVE UIContainer_DrawLoop(_, _, _, _)
UIContainer_DrawLoop(m, attrs, lo, hi) ==
    IF lo > hi THEN <<>>
    ELSE IF \A k \in DOMAIN m : attrs[m[k]].draw_order < lo
                                \/ attrs[m[k]].draw_order > hi
         THEN <<>>                    \* every pass of lo..hi finds no element
    ELSE IF lo = hi
         THEN IF UIContainer_DrawLoopGoesOn(lo)
              THEN UIContainer_DrawPass(m, attrs, lo)
              ELSE <<>>
         ELSE LET mid == (lo + hi) \div 2
              IN UIContainer_DrawLoop(m, attrs, lo, mid)
                 \o UIContainer_DrawLoop(m, attrs, mid + 1, hi)

\* UIContainer::Draw : every element drawn by one call, in call order
UIContainer_DrawCalls(m, attrs) ==
    UIContainer_DrawLoop(m, attrs, MIN_DRAW_ORDER, MAX_DRAW_ORDER + 1)

\* UIContainer::SetDrawOrder : the value stored for argument _order
UIContainer_StoredOrder(order) == order

\* RemoveElement erasing the entry only when it held an element
UIContainer_EraseSlotIfSet(slot, id) ==
    IF slot[id] = Null THEN slot ELSE Erase(slot, id)

\* UIContainer::RemoveElement, second statement : elements.erase(id), on the
\* map as operator[] in the first statement left it
UIContainer_EraseSlot(slot, id) == Erase(slot, id)

UIContainer_Init ==
    /\ elements = EmptyMap
    /\ cDrawOrder = 0
    /\ elem = EmptyMap
    /\ elemCount = 0
    /\ uiLast = UICall("UIContainer", "", Null, 0, Null, FALSE, NoLog, NoLog,
                       EmptyMap)
    /\ uiAdded = EmptyMap
    /\ uiGone = {}

\* AddElement(id, new <widget>())
UIContainer_AddElement(id) ==
    /\ elemCount < MaxElemObj
    /\ LET e == elemCount + 1 IN
        /\ elemCount' = e
        /\ elem' = elem @@ (e :> UIElement_New)
        /\ elements' = Emplace(elements, id, e)
        /\ uiLast' = UICall("AddElement", id, e, 0, Null, ~Found(elements, id),
                            NoLog, NoLog, elements)
        /\ uiAdded' = IF id \in DOMAIN uiAdded THEN uiAdded
                      ELSE uiAdded @@ (id :> e)
        /\ uiGone' = uiGone \ {id}
    /\ UNCHANGED cDrawOrder
    /\ UIFrame

\* delete elements[id]; elements.erase(id);
UIContainer_RemoveElement(id) ==
    /\ LET slot == IndexOrInsert(elements, id)
           gone == slot[id]
       IN /\ elem' = Erase(elem, gone)           \* delete of nullptr does nothing
          /\ elements' = UIContainer_EraseSlot(slot, id)
          /\ uiLast' = UICall("RemoveElement", id, gone, 0, Null, FALSE,
                              NoLog, NoLog, elements)
    /\ uiAdded' = Erase(uiAdded, id)
    /\ uiGone' = uiGone \cup {id}
    /\ UNCHANGED <<cDrawOrder, elemCount>>
    /\ UIFrame

UIContainer_GetElement(id) ==
    /\ elements' = UIContainer_AfterLookup(elements, id)
    /\ uiLast' = UICall("GetElement", id, Null, 0,
                        UIContainer_Lookup(elements, id), FALSE, NoLog, NoLog,
                        elements)
    /\ UNCHANGED <<cDrawOrder, elem, elemCount,
                   uiAdded, uiGone>>
    /\ UIFrame

UIContainer_GetDrawOrder ==
    /\ uiLast' = UICall("GetDrawOrder", "", Null, 0, cDrawOrder, FALSE,
                        NoLog, NoLog, elements)
    /\ UNCHANGED <<elements, cDrawOrder, elem, elemCount,
                   uiAdded, uiGone>>
    /\ UIFrame

UIContainer_SetDrawOrder(order) ==
    /\ cDrawOrder' = UIContainer_StoredOrder(order)
    /\ uiLast' = UICall("SetDrawOrder", "", Null, order, Null, FALSE,
                        NoLog, NoLog, elements)
    /\ UNCHANGED <<elements, elem, elemCount,
                   uiAdded, uiGone>>
    /\ UIFrame

UIContainer_Update ==
    /\ uiLast' = UICall("Update", "", Null, 0, Null, FALSE, NoLog,
                        UIContainer_UpdateCalls(elements, elem), elements)
    /\ UNCHANGED <<elements, cDrawOrder, elem, elemCount,
                   uiAdded, uiGone>>
    /\ UIFrame

UIContainer_Draw ==
    /\ uiLast' = UICall("Draw", "", Null, 0, Null, FALSE,
                        UIContainer_DrawCalls(elements, elem),
                        NoLog, elements)
    /\ UNCHANGED <<elements, cDrawOrder, elem, elemCount,
                   uiAdded, uiGone>>
    /\ UIFrame

\* for (auto &element : elements) : set one flag of every stored element
ForAllStored(flag, value) ==
    [e \in DOMAIN elem |->
        IF \E k \in DOMAIN elements : elements[k] = e
        THEN [elem[e] EXCEPT ![flag] = value]
        ELSE elem[e]]

UIContainer_EnableAll ==
    /\ elem' = ForAllStored("enabled", TRUE)
    /\ uiLast' = UICall("EnableAll", "", Null, 0, Null, FALSE, NoLog, NoLog,
                        elements)
    /\ UNCHANGED <<elements, cDrawOrder, elemCount,
                   uiAdded, uiGone>>
    /\ UIFrame

UIContainer_DisableAll ==
    /\ elem' = ForAllStored("enabled", FALSE)
    /\ uiLast' = UICall("DisableAll", "", Null, 0, Null, FALSE, NoLog, NoLog,
                        elements)
    /\ UNCHANGED <<elements, cDrawOrder, elemCount,
                   uiAdded, uiGone>>
    /\ UIFrame

UIContainer_SetAllVisibilityTo(value) ==
    /\ elem' = ForAllStored("active", value)
    /\ uiLast' = UICall("SetAllVisibilityTo", "", Null, 0, Null, FALSE,
                        NoLog, NoLog, elements)
    /\ UNCHANGED <<elements, cDrawOrder, elemCount,
                   uiAdded, uiGone>>
    /\ UIFrame

\* The calls below reach an element through GetElement(id)
UIElement_SetDrawOrder(id, order) ==
    /\ Found(elements, id)
    /\ elem' = [elem EXCEPT ![elements[id]].draw_order =
                                UIElement_ClampOrder(order)]
    /\ uiLast' = UICall("Element.SetDrawOrder", id, elements[id], order, Null,
                        FALSE, NoLog, NoLog, elements)
    /\ UNCHANGED <<elements, cDrawOrder, elemCount,
                   uiAdded, uiGone>>
    /\ UIFrame

UIElement_ToggleDisplayState(id) ==
    /\ Found(elements, id)
    /\ elem' = [elem EXCEPT ![elements[id]].active = ~@]
    /\ uiLast' = UICall("Element.ToggleDisplayState", "", Null, 0,
                        Null, FALSE, NoLog, NoLog, elements)
    /\ UNCHANGED <<elements, cDrawOrder, elemCount,
                   uiAdded, uiGone>>
    /\ UIFrame

UIElement_SetDisplayState(id, value) ==
    /\ Found(elements, id)
    /\ elem' = [elem EXCEPT ![elements[id]].active = value]
    /\ uiLast' = UICall("Element.SetDisplayState", "", Null, 0,
                        Null, FALSE, NoLog, NoLog, elements)
    /\ UNCHANGED <<elements, cDrawOrder, elemCount,
                   uiAdded, uiGone>>
    /\ UIFrame

UIElement_Enable(id) ==
    /\ Found(elements, id)
    /\ elem' = [elem EXCEPT ![elements[id]].enabled = TRUE]
    /\ uiLast' = UICall("Element.Enable", "", Null, 0,
                        Null, FALSE, NoLog, NoLog, elements)
    /\ UNCHANGED <<elements, cDrawOrder, elemCount,
                   uiAdded, uiGone>>
    /\ UIFrame

UIElement_Disable(id) ==
    /\ Found(elements, id)
    /\ elem' = [elem EXCEPT ![elements[id]].enabled = FALSE]
    /\ uiLast' = UICall("Element.Disable", "", Null, 0,
                        Null, FALSE, NoLog, NoLog, elements)
    /\ UNCHANGED <<elements, cDrawOrder, elemCount,
                   uiAdded, uiGone>>
    /\ UIFrame

UIElement_ToggleEnabled(id) ==
    /\ Found(elements, id)
    /\ elem' = [elem EXCEPT ![elements[id]].enabled = ~@]
    /\ uiLast' = UICall("Element.ToggleEnabled", "", Null, 0,
                        Null, FALSE, NoLog, NoLog, elements)
    /\ UNCHANGED <<elements, cDrawOrder, elemCount,
                   uiAdded, uiGone>>
    /\ UIFrame

UIContainer_Next ==
    \/ \E id \in ElemIds : UIContainer_AddElement(id)
    \/ \E id \in ElemIds : UIContainer_RemoveElement(id)
    \/ \E id \in ElemIds : UIContainer_GetElement(id)
    \/ UIContainer_GetDrawOrder
    \/ \E v \in ContainerOrderInputs : UIContainer_SetDrawOrder(v)
    \/ UIContainer_Update
    \/ UIContainer_Draw
    \/ UIContainer_EnableAll
    \/ UIContainer_DisableAll
    \/ \E b \in BOOLEAN : UIContainer_SetAllVisibilityTo(b)
    \/ \E id \in ElemIds, v \in OrderInputs : UIElement_SetDrawOrder(id, v)
    \/ \E id \in ElemIds : UIElement_ToggleDisplayState(id)
    \/ \E id \in ElemIds, b \in BOOLEAN : UIElement_SetDisplayState(id, b)
    \/ \E id \in ElemIds : UIElement_Enable(id)
    \/ \E id \in ElemIds : UIElement_Disable(id)
    \/ \E id \in ElemIds : UIElement_ToggleEnabled(id)

\* ------------------------------------------------------------------------
\* Scene: ownership of UIContainers and GameObjects, and of the UIElements
\* of the UIContainers it owns
\* ------------------------------------------------------------------------
\* Objects are numbered by kind: the Scene, the n-th UIContainer, GameObject
\* and UIElement the caller creates
TheScene == 200
UIObj(n) == 300 + n
GameObj(n) == 400 + n
ElObj(n) == 500 + n

\* How many objects the caller has created for the Scene so far
CreatedChildren == created.ui + created.obj + created.el

\* The pointers stored in map m (nullptr left out: delete nullptr does nothing)
Pointees(m) == {m[k] : k \in DOMAIN m} \ {Null}

\* delete p, for every p in ps: each pointee's destructor runs once more
RunDestructors(d, ps) == [o \in DOMAIN d |-> IF o \in ps THEN d[o] + 1 ELSE d[o]]

\* The elements map of container c (nothing for a null or destroyed one)
ElementsOf(c) == IF c \in DOMAIN contElems THEN contElems[c] ELSE EmptyMap

\* A destructor that frees nothing
UIContainer_DtorLeaks(m) == {}

\* UIContainer::~UIContainer : the elements it deletes
UIContainer_DtorDeletes(m) == Pointees(m)

\* Scene::~Scene : the UIContainers and GameObjects it deletes
Scene_DtorDeletes(uis, objs) == Pointees(uis) \cup Pointees(objs)

\* Everything destroyed when the containers in cs are deleted: the containers,
\* and through ~UIContainer their elements
WithElements(cs) ==
    cs \cup UNION {UIContainer_DtorDeletes(ElementsOf(c)) : c \in cs}

\* What a Scene call is recorded as: the call, for a Remove call whether its
\* id was absent from the map it works on and the pointers it passed to
\* delete, and the Draw() / Update() calls made on the children, in call order
SCCall(op, absent, deleted, drew, updated) ==
    [op |-> op, absent |-> absent, deleted |-> deleted,
     drew |-> drew, updated |-> updated]

\* The values of m in the order a range-for over the map visits them
InMapOrder(m) ==
    LET ks == IterationOrder(m) IN [i \in 1..Len(ks) |-> m[ks[i]]]

\* Scene::Draw, camera pass : obj.second->Draw() for every entry of objects
Scene_ObjectDraws(objs) == InMapOrder(objs)

\* Scene::Draw, inner loop : the containers drawn in the pass for order i
Scene_DrawPass(uis, ord, i) ==
    LET hit == SelectSeq(IterationOrder(uis), LAMBDA k : ord[uis[k]] = i)
    IN [j \in 1..Len(hit) |-> uis[hit[j]]]

\* Scene::Draw, loop condition : i <= MAX_DRAW_ORDER
Scene_DrawLoopGoesOn(i) == i <= MAX_DRAW_ORDER

\* Scene::Draw, outer loop : for (i = MIN_DRAW_ORDER; <condition>; i++), the
\* passes for lo..hi one after the other (the interval is halved only to keep
\* the evaluation shallow; the passes run in increasing i)
RECURSIVE Scene_DrawLoop(_, _, _, _)
Scene_DrawLoop(uis, ord, lo, hi) ==
    IF lo > hi THEN <<>>
    ELSE IF \A k \in DOMAIN uis : ord[uis[k]] < lo \/ ord[uis[k]] > hi
         THEN <<>>                    \* every pass of lo..hi finds no container
    ELSE IF lo = hi
         THEN IF Scene_DrawLoopGoesOn(lo)
              THEN Scene_DrawPass(uis, ord, lo)
              ELSE <<>>
         ELSE LET mid == (lo + hi) \div 2
              IN Scene_DrawLoop(uis, ord, lo, mid)
                 \o Scene_DrawLoop(uis, ord, mid + 1, hi)

\* Scene::Draw, screen pass : every container drawn by one call, in call order
Scene_UIDraws(uis, ord) ==
    Scene_DrawLoop(uis, ord, MIN_DRAW_ORDER, MAX_DRAW_ORDER + 1)

\* Scene::Draw with the screen pass ahead of the camera pass
Scene_DrawSequenceUIFirst(objDraws, uiDraws) == uiDraws \o objDraws

\* Scene::Draw : the camera pass (BeginMode2D .. EndMode2D), then the screen
\* pass
Scene_DrawSequence(objDraws, uiDraws) == objDraws \o uiDraws

\* Scene::Update, first loop : obj.second->Update() for every entry of objects
Scene_ObjectUpdates(objs) == InMapOrder(objs)

\* Scene::Update, second loop : ui.second->Update() for every entry of
\* interfaces
Scene_UIUpdates(uis) == InMapOrder(uis)

\* Scene::Update with the two loops exchanged
Scene_UpdateSequenceUIFirst(objUpdates, uiUpdates) == uiUpdates \o objUpdates

\* Scene::Update : the first loop, then the second
Scene_UpdateSequence(objUpdates, uiUpdates) == objUpdates \o uiUpdates

Scene_Init ==
    /\ sceneAlive = TRUE
    /\ interfaces = EmptyMap
    /\ objects = EmptyMap
    /\ contElems = EmptyMap
    /\ created = [ui |-> 0, obj |-> 0, el |-> 0]
    /\ destroyed = (TheScene :> 0)
    /\ handed = EmptyMap
    /\ removed = {}
    /\ contOrder = EmptyMap
    /\ scLast = SCCall("Scene", FALSE, {}, NoLog, NoLog)

\* AddUi(id, new UIContainer())
Scene_AddUi(id) ==
    /\ sceneAlive
    /\ CreatedChildren < MaxSceneChildren
    /\ LET c == UIObj(created.ui + 1) IN
        /\ created' = [created EXCEPT !.ui = @ + 1]
        /\ contElems' = contElems @@ (c :> EmptyMap)
        /\ contOrder' = contOrder @@ (c :> 0)    \* UIContainer() : draw_order(0)
        /\ destroyed' = destroyed @@ (c :> 0)
        /\ interfaces' = Emplace(interfaces, id, c)
        /\ handed' = IF Found(interfaces, id) THEN handed
                     ELSE handed @@ (c :> TheScene)
    /\ scLast' = SCCall("AddUi", FALSE, {}, NoLog, NoLog)
    /\ UNCHANGED <<sceneAlive, objects, removed>>
    /\ SceneFrame

\* delete interfaces[id]; interfaces.erase(id);
Scene_RemoveUI(id) ==
    /\ sceneAlive
    /\ LET slot == IndexOrInsert(interfaces, id)
           gone == Pointees((id :> slot[id]))
       IN /\ destroyed' = RunDestructors(destroyed, WithElements(gone))
          /\ contElems' = [c \in DOMAIN contElems \ gone |-> contElems[c]]
          /\ contOrder' = [c \in DOMAIN contOrder \ gone |-> contOrder[c]]
          /\ interfaces' = Erase(slot, id)
          /\ removed' = removed \cup gone
          /\ scLast' = SCCall("RemoveUI", ~Found(interfaces, id), gone,
                              NoLog, NoLog)
    /\ UNCHANGED <<sceneAlive, objects, created, handed>>
    /\ SceneFrame

\* AddObject(id, new <GameObject>())
Scene_AddObject(id) ==
    /\ sceneAlive
    /\ CreatedChildren < MaxSceneChildren
    /\ LET g == GameObj(created.obj + 1) IN
        /\ created' = [created EXCEPT !.obj = @ + 1]
        /\ destroyed' = destroyed @@ (g :> 0)
        /\ objects' = Emplace(objects, id, g)
        /\ handed' = IF Found(objects, id) THEN handed
                     ELSE handed @@ (g :> TheScene)
    /\ scLast' = SCCall("AddObject", FALSE, {}, NoLog, NoLog)
    /\ UNCHANGED <<sceneAlive, interfaces, contElems, removed, contOrder>>
    /\ SceneFrame

\* delete objects[id]; objects.erase(id);
Scene_RemoveObject(id) ==
    /\ sceneAlive
    /\ LET slot == IndexOrInsert(objects, id)
           gone == Pointees((id :> slot[id]))
       IN /\ destroyed' = RunDestructors(destroyed, gone)
          /\ objects' = Erase(slot, id)
          /\ removed' = removed \cup gone
          /\ scLast' = SCCall("RemoveObject", ~Found(objects, id), gone,
                              NoLog, NoLog)
    /\ UNCHANGED <<sceneAlive, interfaces, contElems, created, handed,
                   contOrder>>
    /\ SceneFrame

\* GetUI(cid).AddElement(id, new <widget>())
SceneUI_AddElement(cid, id) ==
    /\ sceneAlive
    /\ Found(interfaces, cid)
    /\ CreatedChildren < MaxSceneChildren
    /\ LET c == interfaces[cid]
           e == ElObj(created.el + 1)
       IN /\ created' = [created EXCEPT !.el = @ + 1]
          /\ destroyed' = destroyed @@ (e :> 0)
          /\ contElems' = [contElems EXCEPT ![c] = Emplace(@, id, e)]
          /\ handed' = IF Found(contElems[c], id) THEN handed
                       ELSE handed @@ (e :> c)
          /\ scLast' = SCCall("AddElement", FALSE, {}, NoLog, NoLog)
    /\ UNCHANGED <<sceneAlive, interfaces, objects, removed, contOrder>>
    /\ SceneFrame

\* GetUI(cid).RemoveElement(id) : delete elements[id]; elements.erase(id);
SceneUI_RemoveElement(cid, id) ==
    /\ sceneAlive
    /\ Found(interfaces, cid)
    /\ LET c == interfaces[cid]
           slot == IndexOrInsert(contElems[c], id)
           gone == Pointees((id :> slot[id]))
       IN /\ destroyed' = RunDestructors(destroyed, gone)
          /\ contElems' = [contElems EXCEPT ![c] = UIContainer_EraseSlot(slot, id)]
          /\ removed' = removed \cup gone
          /\ scLast' = SCCall("RemoveElement", ~Found(contElems[c], id),
                              gone, NoLog, NoLog)
    /\ UNCHANGED <<sceneAlive, interfaces, objects, created, handed,
                   contOrder>>
    /\ SceneFrame

\* GetUI(cid).SetDrawOrder(order)
SceneUI_SetDrawOrder(cid, order) ==
    /\ sceneAlive
    /\ Found(interfaces, cid)
    /\ contOrder' = [contOrder EXCEPT ![interfaces[cid]] =
                                          UIContainer_StoredOrder(order)]
    /\ scLast' = SCCall("SetDrawOrder", FALSE, {}, NoLog, NoLog)
    /\ UNCHANGED <<sceneAlive, interfaces, objects, contElems, created,
                   destroyed, handed, removed>>
    /\ SceneFrame

\* Scene::Draw : one frame
Scene_Draw ==
    /\ sceneAlive
    /\ scLast' = SCCall("Draw", FALSE, {},
                        Scene_DrawSequence(Scene_ObjectDraws(objects),
                                           Scene_UIDraws(interfaces, contOrder)),
                        NoLog)
    /\ UNCHANGED <<sceneAlive, interfaces, objects, contElems, created,
                   destroyed, handed, removed, contOrder>>
    /\ SceneFrame

\* Scene::Update
Scene_Update ==
    /\ sceneAlive
    /\ scLast' = SCCall("Update", FALSE, {}, NoLog,
                        Scene_UpdateSequence(Scene_ObjectUpdates(objects),
                                             Scene_UIUpdates(interfaces)))
    /\ UNCHANGED <<sceneAlive, interfaces, objects, contElems, created,
                   destroyed, handed, removed, contOrder>>
    /\ SceneFrame

\* Scene::~Scene
Scene_Dtor ==
    /\ sceneAlive
    /\ sceneAlive' = FALSE
    /\ LET gone == Scene_DtorDeletes(interfaces, objects)
       IN /\ destroyed' = RunDestructors(destroyed,
                                         {TheScene} \cup WithElements(gone))
          /\ contElems' = [c \in DOMAIN contElems \ gone |-> contElems[c]]
          /\ contOrder' = [c \in DOMAIN contOrder \ gone |-> contOrder[c]]
          /\ scLast' = SCCall("~Scene", FALSE, gone, NoLog, NoLog)
    /\ UNCHANGED <<interfaces, objects, created, handed, removed>>
    /\ SceneFrame

Scene_Next ==
    \/ \E id \in ElemIds : Scene_AddUi(id)
    \/ \E id \in ElemIds : Scene_RemoveUI(id)
    \/ \E id \in ElemIds : Scene_AddObject(id)
    \/ \E id \in ElemIds : Scene_RemoveObject(id)
    \/ \E cid \in ElemIds, id \in ElemIds : SceneUI_AddElement(cid, id)
    \/ \E cid \in ElemIds, id \in ElemIds : SceneUI_RemoveElement(cid, id)
    \/ Scene_Dtor

\* The frame loop of a Scene: its children come and go, the containers are
\* given draw orders, and the Scene is drawn and updated
SceneLoop_Next ==
    \/ \E id \in ElemIds : Scene_AddUi(id)
    \/ \E id \in ElemIds : Scene_RemoveUI(id)
    \/ \E id \in ElemIds : Scene_AddObject(id)
    \/ \E id \in ElemIds : Scene_RemoveObject(id)
    \/ \E cid \in ElemIds, v \in SceneOrderInputs : SceneUI_SetDrawOrder(cid, v)
    \/ Scene_Draw
    \/ Scene_Update

\* ------------------------------------------------------------------------
\* AnimatedTexture
\* ------------------------------------------------------------------------
TexCall(op, drew) ==
    [op |-> op, frame |-> tex.current_frame, play |-> tex.play, drew |-> drew]

\* AnimatedTexture::AnimatedTexture() : one frame, 0 ms per frame, no loop.
\* It assigns neither play nor initialized, so both hold whatever the storage
\* held: either value (play_ and initialized_ stand for that content)
AnimatedTexture_Default(now, play_, initialized_) ==
    [frame_count |-> 1, ms_per_frame |-> 0, last_frame_change |-> now,
     current_frame |-> 0, loop |-> FALSE, play |-> play_,
     initialized |-> initialized_]

\* AnimatedTexture::AnimatedTexture(texture_name, frame_count, fps, _loop)
AnimatedTexture_Args(now, frame_count, fps, loop) ==
    [frame_count |-> frame_count, ms_per_frame |-> 1000 \div fps,
     last_frame_change |-> now, current_frame |-> 0, loop |-> loop,
     play |-> loop, initialized |-> FALSE]

\* AnimatedTexture::Initialize
AnimatedTexture_AfterInitialize(t) == [t EXCEPT !.initialized = TRUE]

\* AnimatedTexture::Play
AnimatedTexture_AfterPlay(t, now) ==
    [t EXCEPT !.play = TRUE, !.last_frame_change = now]

\* AnimatedTexture::Pause
AnimatedTexture_AfterPause(t) == [t EXCEPT !.play = FALSE]

\* AnimatedTexture::Resume : Play()
AnimatedTexture_AfterResume(t, now) == AnimatedTexture_AfterPlay(t, now)

\* AnimatedTexture::Reset
AnimatedTexture_AfterReset(t) == [t EXCEPT !.current_frame = 0]

\* Stop that pauses without the Reset
AnimatedTexture_AfterStopPauseOnly(t) == AnimatedTexture_AfterPause(t)

\* AnimatedTexture::Stop : Pause(); Reset();
AnimatedTexture_AfterStop(t) ==
    AnimatedTexture_AfterReset(AnimatedTexture_AfterPause(t))

\* Update stepping the frame index without the modulo
AnimatedTexture_NextFrameNoWrap(current_frame, size) == current_frame + 1

\* AnimatedTexture::Update : (current_frame + 1) % frames.size()
AnimatedTexture_NextFrame(current_frame, size) == (current_frame + 1) % size

\* Update changing the frame whatever time has passed
AnimatedTexture_UpdateDueAlways(t, now) ==
    /\ t.initialized
    /\ t.play

\* AnimatedTexture::Update : the condition of its if
AnimatedTexture_UpdateDue(t, now) ==
    /\ (now - t.last_frame_change) > t.ms_per_frame
    /\ t.initialized
    /\ t.play

\* Update stopping at the last frame of a texture that does not loop
AnimatedTexture_AfterUpdateHonoursLoop(t, now) ==
    IF AnimatedTexture_UpdateDue(t, now)
           /\ (t.loop \/ t.current_frame < t.frame_count - 1)
    THEN [t EXCEPT !.current_frame =
                       AnimatedTexture_NextFrame(t.current_frame, t.frame_count),
                   !.last_frame_change = now]
    ELSE t

\* AnimatedTexture::Update
AnimatedTexture_AfterUpdate(t, now) ==
    IF AnimatedTexture_UpdateDue(t, now)
    THEN [t EXCEPT !.current_frame =
                       AnimatedTexture_NextFrame(t.current_frame, t.frame_count),
                   !.last_frame_change = now]
    ELSE t

\* AnimatedTexture::Draw : whether DrawTexturePro is called
AnimatedTexture_Draws(t) == t.initialized

\* The bookkeeping of a run that is not, or no longer, a polling
NotPolling(r) == [r EXCEPT !.polls = -1, !.polled = FALSE]

\* The bookkeeping after an Update() call on texture t at time now: the call
\* is a frame change when it took the branch of the if (it left the texture
\* with another frame or another last_frame_change)
RunAfterUpdate(r, t, now) ==
    LET counted == IF AnimatedTexture_AfterUpdate(t, now) # t
                   THEN [r EXCEPT !.advances = r.advances + 1,
                                  !.lastAt = now,
                                  !.gap = IF r.lastAt >= 0
                                          THEN now - r.lastAt
                                          ELSE -1]
                   ELSE r
    IN  IF r.polls >= 0 /\ ~r.polled /\ t.initialized
        THEN [counted EXCEPT !.polls = r.polls + 1, !.polled = TRUE]
        ELSE NotPolling(counted)

AnimatedTexture_Init ==
    /\ clock = 0
    /\ texCtor \in {"default", "args"}
    /\ tex \in IF texCtor = "default"
               THEN {AnimatedTexture_Default(clock, p, i) :
                        p \in BOOLEAN, i \in BOOLEAN}
               ELSE {AnimatedTexture_Args(clock, n, fps, l) :
                        n \in FrameCountInputs \cup PollFrameCountInputs,
                        fps \in FpsInputs \cup PollFpsInputs,
                        l \in BOOLEAN}
    /\ texInitCalled = FALSE
    /\ texPlayCalled = FALSE
    /\ texLast = [op |-> "AnimatedTexture", frame |-> 0, play |-> FALSE,
                  drew |-> FALSE]
    /\ texRun = [advances |-> 0, lastAt |-> -1, gap |-> -1, polls |-> 0,
                 polled |-> FALSE]

\* Time passes: the steady clock moves on by a millisecond
Clock_Tick ==
    /\ clock < MaxClock
    /\ clock' = clock + 1
    /\ texRun' = NotPolling(texRun)
    /\ UNCHANGED <<tex, texCtor, texInitCalled, texPlayCalled, texLast>>
    /\ TexFrame

\* Time passes beyond MaxClock. Readings are then kept relative to the
\* present: the present stays at MaxClock and the past moves back by a
\* millisecond, a last_frame_change more than MaxClock ago being kept as
\* MaxClock ago (MaxClock exceeds every ms_per_frame of SpecTextureLive, so
\* Update's test reads the same). The bookkeeping of the run, which is in
\* absolute time, starts afresh
Clock_TickOn ==
    /\ clock = MaxClock
    /\ tex' = [tex EXCEPT !.last_frame_change =
                   IF @ > 0 THEN @ - 1 ELSE 0]
    /\ texRun' = [advances |-> 0, lastAt |-> -1, gap |-> -1, polls |-> -1,
                  polled |-> FALSE]
    /\ UNCHANGED <<clock, texCtor, texInitCalled, texPlayCalled, texLast>>
    /\ TexFrame

\* Time passes: the steady clock moves on by one polling period
Clock_Poll(d) ==
    /\ clock + d <= d * (MaxPolls - 1)
    /\ clock' = clock + d
    /\ texRun' = IF texRun.polls >= 0 /\ texRun.polled
                 THEN [texRun EXCEPT !.polled = FALSE]
                 ELSE NotPolling(texRun)
    /\ UNCHANGED <<tex, texCtor, texInitCalled, texPlayCalled, texLast>>
    /\ TexFrame

AnimatedTexture_Initialize ==
    /\ tex' = AnimatedTexture_AfterInitialize(tex)
    /\ texInitCalled' = TRUE
    /\ texLast' = TexCall("Initialize", FALSE)
    /\ texRun' = IF texRun.polls = 0 /\ ~texRun.polled
                 THEN texRun
                 ELSE NotPolling(texRun)
    /\ UNCHANGED <<clock, texCtor, texPlayCalled>>
    /\ TexFrame

AnimatedTexture_Play ==
    /\ tex' = AnimatedTexture_AfterPlay(tex, clock)
    /\ texPlayCalled' = TRUE
    /\ texLast' = TexCall("Play", FALSE)
    /\ texRun' = NotPolling(texRun)
    /\ UNCHANGED <<clock, texCtor, texInitCalled>>
    /\ TexFrame

AnimatedTexture_Pause ==
    /\ tex' = AnimatedTexture_AfterPause(tex)
    /\ texLast' = TexCall("Pause", FALSE)
    /\ texRun' = NotPolling(texRun)
    /\ UNCHANGED <<clock, texCtor, texInitCalled, texPlayCalled>>
    /\ TexFrame

AnimatedTexture_Resume ==
    /\ tex' = AnimatedTexture_AfterResume(tex, clock)
    /\ texPlayCalled' = TRUE
    /\ texLast' = TexCall("Resume", FALSE)
    /\ texRun' = NotPolling(texRun)
    /\ UNCHANGED <<clock, texCtor, texInitCalled>>
    /\ TexFrame

AnimatedTexture_Stop ==
    /\ tex' = AnimatedTexture_AfterStop(tex)
    /\ texLast' = TexCall("Stop", FALSE)
    /\ texRun' = NotPolling(texRun)
    /\ UNCHANGED <<clock, texCtor, texInitCalled, texPlayCalled>>
    /\ TexFrame

AnimatedTexture_Reset ==
    /\ tex' = AnimatedTexture_AfterReset(tex)
    /\ texLast' = TexCall("Reset", FALSE)
    /\ texRun' = NotPolling(texRun)
    /\ UNCHANGED <<clock, texCtor, texInitCalled, texPlayCalled>>
    /\ TexFrame

AnimatedTexture_Update ==
    /\ tex' = AnimatedTexture_AfterUpdate(tex, clock)
    /\ texLast' = TexCall("Update", FALSE)
    /\ texRun' = RunAfterUpdate(texRun, tex, clock)
    /\ UNCHANGED <<clock, texCtor, texInitCalled, texPlayCalled>>
    /\ TexFrame

AnimatedTexture_Draw ==
    /\ texLast' = TexCall("Draw", AnimatedTexture_Draws(tex))
    /\ UNCHANGED <<tex, clock, texCtor, texInitCalled, texPlayCalled, texRun>>
    /\ TexFrame

AnimatedTexture_Next ==
    \/ Clock_Tick
    \/ AnimatedTexture_Initialize
    \/ AnimatedTexture_Play
    \/ AnimatedTexture_Pause
    \/ AnimatedTexture_Resume
    \/ AnimatedTexture_Stop
    \/ AnimatedTexture_Reset
    \/ AnimatedTexture_Update
    \/ AnimatedTexture_Draw

\* The calls of a game loop that polls Update() once per period
TexturePoll_Next ==
    \/ \E d \in PollPeriods : Clock_Poll(d)
    \/ AnimatedTexture_Initialize
    \/ AnimatedTexture_Play
    \/ AnimatedTexture_Resume
    \/ AnimatedTexture_Update

\* A game loop that never pauses or stops the texture, over unbounded time
TextureLive_Next ==
    \/ Clock_Tick
    \/ Clock_TickOn
    \/ AnimatedTexture_Initialize
    \/ AnimatedTexture_Play
    \/ AnimatedTexture_Resume
    \/ AnimatedTexture_Update

\* Time does not stop
Clock_Passes == Clock_Tick \/ Clock_TickOn

\* ------------------------------------------------------------------------
\* Button
\* ------------------------------------------------------------------------
BtnCall(op, fired, result) == [op |-> op, fired |-> fired, result |-> result]

\* Update setting press on a click anywhere on the screen
Button_ClickAnywhereSetsPress(hover, pressed) == pressed

\* Button::Update : the test that sets press
Button_ClickSetsPress(hover, pressed) == hover /\ pressed

\* Update without the else branch: press is kept when the cursor leaves
Button_PressAfterClickKeptOutside(press, hover, pressed) ==
    IF Button_ClickSetsPress(hover, pressed) THEN TRUE ELSE press

\* Button::Update : if (hover && pressed) press = true;
\*                  else if (!hover) press = false;
Button_PressAfterClick(press, hover, pressed) ==
    IF Button_ClickSetsPress(hover, pressed)
    THEN TRUE
    ELSE IF ~hover THEN FALSE ELSE press

\* Button::Update : the test that invokes callbackFunction
Button_Releases(b, m) == b.press /\ ~m.down

\* Update leaving press set after callbackFunction()
Button_AfterReleaseStillPressed(b) == b

\* Button::Update : press = false after callbackFunction()
Button_AfterRelease(b) == [b EXCEPT !.press = FALSE]

\* Button::Update : the callback it invokes
Button_Fires(b, m) ==
    IF b.enabled /\ Button_Releases(b, m) THEN b.callbackFunction ELSE "none"

\* Update without the test of enabled
Button_AfterUpdateWhenDisabled(b, m) ==
    LET hovered == [b EXCEPT !.hover = m.inside]
        released == IF Button_Releases(hovered, m)
                    THEN Button_AfterRelease(hovered)
                    ELSE hovered
    IN  [released EXCEPT !.press =
            Button_PressAfterClick(released.press, released.hover, m.pressed)]

\* Button::Update
Button_AfterUpdate(b, m) ==
    IF b.enabled
    THEN LET hovered == [b EXCEPT !.hover = m.inside]
             released == IF Button_Releases(hovered, m)
                         THEN Button_AfterRelease(hovered)
                         ELSE hovered
         IN  [released EXCEPT !.press =
                 Button_PressAfterClick(released.press, released.hover,
                                        m.pressed)]
    ELSE b

\* Button::IsReleased
Button_IsReleasedResult(b, m) == b.press /\ ~m.down

\* Button::Button : UIElement() then InitButton(); the window has just
\* opened, with the cursor away from the button and no mouse button held
Button_Init ==
    /\ button = [hover |-> FALSE, press |-> FALSE, enabled |-> TRUE,
                 callbackFunction |-> "DefaultCallback"]
    /\ mouse = [inside |-> FALSE, down |-> FALSE, pressed |-> FALSE]
    /\ btnPressWas = FALSE
    /\ btnLast = BtnCall("Button", "none", "none")

\* A new frame: the input library samples the mouse. The left button counts
\* as pressed in the frame in which it is down after having been up
Mouse_Poll(inside, down) ==
    /\ mouse' = [inside |-> inside, down |-> down,
                 pressed |-> down /\ ~mouse.down]
    /\ UNCHANGED <<button, btnPressWas, btnLast>>
    /\ BtnFrame

Button_Update ==
    /\ button' = Button_AfterUpdate(button, mouse)
    /\ btnPressWas' = button.press
    /\ btnLast' = BtnCall("Update", Button_Fires(button, mouse), "none")
    /\ UNCHANGED mouse
    /\ BtnFrame

Button_IsPressed ==
    /\ btnLast' = BtnCall("IsPressed", "none", button.press)
    /\ UNCHANGED <<button, mouse, btnPressWas>>
    /\ BtnFrame

Button_IsReleased ==
    /\ btnLast' = BtnCall("IsReleased", "none",
                          Button_IsReleasedResult(button, mouse))
    /\ UNCHANGED <<button, mouse, btnPressWas>>
    /\ BtnFrame

Button_IsHover ==
    /\ btnLast' = BtnCall("IsHover", "none", button.hover)
    /\ UNCHANGED <<button, mouse, btnPressWas>>
    /\ BtnFrame

Button_DefineOnPressCallback(callback) ==
    /\ button' = [button EXCEPT !.callbackFunction = callback]
    /\ btnLast' = BtnCall("DefineOnPressCallback", "none", "none")
    /\ UNCHANGED <<mouse, btnPressWas>>
    /\ BtnFrame

\* UIElement::Enable on the Button
Button_Enable ==
    /\ button' = [button EXCEPT !.enabled = TRUE]
    /\ btnLast' = BtnCall("Enable", "none", "none")
    /\ UNCHANGED <<mouse, btnPressWas>>
    /\ BtnFrame

\* UIElement::Disable on the Button
Button_Disable ==
    /\ button' = [button EXCEPT !.enabled = FALSE]
    /\ btnLast' = BtnCall("Disable", "none", "none")
    /\ UNCHANGED <<mouse, btnPressWas>>
    /\ BtnFrame

Button_Next ==
    \/ \E inside \in BOOLEAN, down \in BOOLEAN : Mouse_Poll(inside, down)
    \/ Button_Update
    \/ Button_IsPressed
    \/ Button_IsReleased
    \/ Button_IsHover
    \/ \E callback \in CallbackInputs : Button_DefineOnPressCallback(callback)
    \/ Button_Enable
    \/ Button_Disable

\* ------------------------------------------------------------------------
\* The owners: SceneManager, UIContainer and Scene, each keeping what it is
\* handed in a std::map. They share no state, so a run exercises one of them
\* and leaves the other two as constructed
\* ------------------------------------------------------------------------
SceneManagerUntouched == smLast.op = "SceneManager"
UIContainerUntouched == uiLast.op = "UIContainer"
SceneUntouched == scLast.op = "Scene"

Owner_AddScene(id) ==
    UIContainerUntouched /\ SceneUntouched /\ SceneManager_AddScene(id)

Owner_RemoveScene(id) ==
    UIContainerUntouched /\ SceneUntouched /\ SceneManager_RemoveScene(id)

Owner_AddElement(id) ==
    SceneManagerUntouched /\ SceneUntouched /\ UIContainer_AddElement(id)

Owner_RemoveElement(id) ==
    SceneManagerUntouched /\ SceneUntouched /\ UIContainer_RemoveElement(id)

Owner_AddUi(id) ==
    SceneManagerUntouched /\ UIContainerUntouched /\ Scene_AddUi(id)

Owner_RemoveUI(id) ==
    SceneManagerUntouched /\ UIContainerUntouched /\ Scene_RemoveUI(id)

Owner_AddObject(id) ==
    SceneManagerUntouched /\ UIContainerUntouched /\ Scene_AddObject(id)

Owner_RemoveObject(id) ==
    SceneManagerUntouched /\ UIContainerUntouched /\ Scene_RemoveObject(id)

Owner_SceneDtor ==
    SceneManagerUntouched /\ UIContainerUntouched /\ Scene_Dtor

Owners_Next ==
    \/ \E id \in SceneIds : Owner_AddScene(id)
    \/ \E id \in SceneIds : Owner_RemoveScene(id)
    \/ \E id \in ElemIds : Owner_AddElement(id)
    \/ \E id \in ElemIds : Owner_RemoveElement(id)
    \/ \E id \in ElemIds : Owner_AddUi(id)
    \/ \E id \in ElemIds : Owner_RemoveUI(id)
    \/ \E id \in ElemIds : Owner_AddObject(id)
    \/ \E id \in ElemIds : Owner_RemoveObject(id)
    \/ Owner_SceneDtor

\* ------------------------------------------------------------------------
\* Specifications: one per component, the other components standing still
\* ------------------------------------------------------------------------
Init ==
    /\ SceneManager_Init
    /\ UIContainer_Init
    /\ Scene_Init
    /\ AnimatedTexture_Init
    /\ Button_Init

\* SceneManager, UIContainer and Scene are the same with whatever
\* AnimatedTexture the game holds
OneTexture ==
    /\ texCtor = "args"
    /\ tex = AnimatedTexture_Args(clock, 1, 500, TRUE)

InitSceneManager == Init /\ OneTexture

SpecSceneManager == InitSceneManager /\ [][SceneManager_Next]_vars

\* UIContainer and Scene are the same in both SceneManager variants
InitComponents == Init /\ OneTexture /\ variant = "NotFound"

\* AnimatedTexture does not depend on the SceneManager variant
\* With the clock stepping by 1 ms: the textures whose frames last 0 or 2 ms
InitTexture ==
    /\ Init
    /\ variant = "NotFound"
    /\ tex.frame_count \in FrameCountInputs
    /\ tex.ms_per_frame \in {1000 \div fps : fps \in FpsInputs}

\* With the clock stepping by a polling period: the textures whose frames
\* last 16 or 100 ms
InitTexturePoll ==
    /\ Init
    /\ variant = "NotFound"
    /\ texCtor = "args"
    /\ tex.frame_count \in PollFrameCountInputs
    /\ tex.ms_per_frame \in {1000 \div fps : fps \in PollFpsInputs}

SpecTexturePoll == InitTexturePoll /\ [][TexturePoll_Next]_vars

\* The textures of several frames, made by the constructor with arguments
InitTextureLive ==
    /\ InitTexture
    /\ texCtor = "args"
    /\ tex.frame_count >= 2

\* The frame loop goes on for ever: time passes and Update() is called
\* again and again; the other calls are the game's to make or not
TextureLive_Fairness ==
    WF_vars(Clock_Passes) /\ WF_vars(AnimatedTexture_Update)

SpecTextureLive ==
    InitTextureLive /\ [][TextureLive_Next]_vars /\ TextureLive_Fairness

SpecTexture == InitTexture /\ [][AnimatedTexture_Next]_vars

SpecUI == InitComponents /\ [][UIContainer_Next]_vars

SpecScene == InitComponents /\ [][Scene_Next]_vars

SpecSceneLoop == InitComponents /\ [][SceneLoop_Next]_vars

SpecButton == InitComponents /\ [][Button_Next]_vars

\* The owners as constructed, in either SceneManager variant
SpecOwners == InitSceneManager /\ [][Owners_Next]_vars

\* ------------------------------------------------------------------------
\* Claims about SceneManager
\* ------------------------------------------------------------------------

\* C1: in every reachable state activeScene refers to a Scene that is still
\* alive, also after RemoveScene of the active scene's id.
C1_ActiveSceneLive == activeScene \in sceneLive

\* C2: after LoadScene(id) with an unregistered id, activeScene is a live
\* Scene, namely the scene active before the call (NotFound variant) or the
\* empty sentinel (fallback variant), and the scenes mapping is unchanged.
C2_LoadMissingKeepsValid ==
    (smLast.op = "LoadScene" /\ ~smLast.ok) =>
        /\ activeScene \in sceneLive
        /\ activeScene = (IF variant = "NotFound" THEN smLast.before
                          ELSE EmptyScene)
        /\ scenes = smLast.scenesBefore

\* C3: after AddScene(id, s) with a fresh id and LoadScene(id), the active
\* scene is s, and every SceneManager Update/Draw runs on s and nothing else
\* until the next successful LoadScene.
C3_LoadedSceneIsTarget ==
    smExpect # Null =>
        /\ (smLast.op = "LoadScene" /\ smLast.ok) => activeScene = smExpect
        /\ smLast.op = "GetActiveScene" => smLast.scene = smExpect
        /\ smLast.op \in {"Update", "Draw"} => smLast.target = smExpect

\* ------------------------------------------------------------------------
\* Claims about UIContainer and UIElement
\* ------------------------------------------------------------------------
\* How many times x occurs in sequence q
Count(q, x) == Cardinality({i \in 1..Len(q) : q[i] = x})

\* clamp(v, -100, 100) as the specification states it
Clamp(v) == IF v < MIN_DRAW_ORDER THEN MIN_DRAW_ORDER
            ELSE IF v > MAX_DRAW_ORDER THEN MAX_DRAW_ORDER ELSE v

\* The stored elements, as objects
Stored == {elements[k] : k \in DOMAIN elements}

\* Position of id k in the map's key order
KeyRank(k) == CHOOSE i \in 1..Len(ElemIdSeq) : ElemIdSeq[i] = k

\* C4: one Draw() draws every stored element whose display state is true
\* exactly once, whatever its draw_order in -100..100 (100 included).
C4_DrawDrawsEveryVisible ==
    uiLast.op = "Draw" =>
        \A e \in Stored : elem[e].active => Count(uiLast.drawn, e) = 1

\* C5: within one Draw() the drawn elements come in non-decreasing
\* draw_order, none of them is hidden, and two visible elements of equal
\* draw_order are both drawn, in the key order of the map.
C5_DrawOrdered ==
    uiLast.op = "Draw" =>
        LET d == uiLast.drawn IN
        /\ \A i, j \in 1..Len(d) :
              i < j => elem[d[i]].draw_order <= elem[d[j]].draw_order
        /\ \A i \in 1..Len(d) : elem[d[i]].active
        /\ \A k1, k2 \in DOMAIN elements :
              ( /\ KeyRank(k1) < KeyRank(k2)
                /\ elem[elements[k1]].active
                /\ elem[elements[k2]].active
                /\ elem[elements[k1]].draw_order = elem[elements[k2]].draw_order )
              => \E i, j \in 1..Len(d) :
                    i < j /\ d[i] = elements[k1] /\ d[j] = elements[k2]

C7_ElementOrderClamped ==
    /\ \A e \in DOMAIN elem :
          MIN_DRAW_ORDER <= elem[e].draw_order /\ elem[e].draw_order <= MAX_DRAW_ORDER
    /\ uiLast.op = "Element.SetDrawOrder" =>
          elem[uiLast.elem].draw_order = Clamp(uiLast.arg)

\* C7 witness: SetDrawOrder with an argument above the range has stored 100,
\* while another element holds a value clamped from below.
C7_Witness ==
    /\ uiLast.op = "Element.SetDrawOrder"
    /\ uiLast.arg > MAX_DRAW_ORDER
    /\ elem[uiLast.elem].draw_order = MAX_DRAW_ORDER
    /\ \E e \in DOMAIN elem : elem[e].draw_order = MIN_DRAW_ORDER

\* C8: after UIContainer.SetDrawOrder(v) the container's GetDrawOrder() is v
\* clamped into [-100, 100].
C8_ContainerOrderClamped ==
    uiLast.op = "SetDrawOrder" => cDrawOrder = Clamp(uiLast.arg)

\* C9: with unique ids, GetElement(id) after AddElement(id, e) returns e
\* itself; after RemoveElement(id) it signals not-found; and GetElement never
\* changes the mapping.
C9_GetElementAliases ==
    /\ uiLast.op = "GetElement" =>
          /\ uiLast.result = (IF uiLast.id \in DOMAIN uiAdded
                              THEN uiAdded[uiLast.id] ELSE NotFound)
          /\ elements = uiLast.before
    /\ (uiLast.op = "AddElement" /\ uiLast.fresh) =>
          UIContainer_Lookup(elements, uiLast.id) = uiLast.elem
    /\ uiLast.op = "RemoveElement" =>
          UIContainer_Lookup(elements, uiLast.id) = NotFound

\* C9 witness: GetElement of a removed id signals not-found while another
\* id still yields its element.
C9_Witness ==
    /\ uiLast.op = "GetElement"
    /\ uiLast.id \in uiGone
    /\ uiLast.result = NotFound
    /\ \E k \in DOMAIN uiAdded : UIContainer_Lookup(elements, k) = uiAdded[k]

\* ------------------------------------------------------------------------
\* Claims about ownership
\* ------------------------------------------------------------------------
\* C10: every object handed over under a unique id is destroyed exactly once,
\* at the Remove call for its id or else when its owner is destroyed: never
\* twice, and never left alive once the owner is gone.
C10_DestroyedExactlyOnce ==
    \A o \in DOMAIN handed :
        destroyed[o] = (IF o \in removed \/ destroyed[handed[o]] >= 1
                        THEN 1 ELSE 0)

\* C10 witness: the Scene has been destroyed with a container that still held
\* an element, after another handed-over object had been removed by id.
C10_Witness ==
    /\ ~sceneAlive
    /\ \E e \in DOMAIN handed :
          /\ handed[e] # TheScene
          /\ e \notin removed
          /\ handed[e] \notin removed
          /\ destroyed[e] = 1
    /\ \E o \in DOMAIN handed : o \in removed /\ destroyed[o] = 1

\* ------------------------------------------------------------------------
\* Claims about Scene
\* ------------------------------------------------------------------------
\* The children the Scene owns: what its two maps point to
OwnedObjects == Pointees(objects)
OwnedUIs == Pointees(interfaces)

\* C11: RemoveElement, RemoveUI or RemoveObject with an id absent from the
\* map it works on does not crash (the only pointer it passes to delete is
\* the null pointer), destroys nothing, and leaves every map with the same
\* ids and the same elements as before the call.
C11_RemoveAbsentIsNoOp ==
    [][ (scLast'.op \in {"RemoveElement", "RemoveUI", "RemoveObject"}
         /\ scLast'.absent) =>
            /\ scLast'.deleted = {}
            /\ destroyed' = destroyed
            /\ interfaces' = interfaces
            /\ objects' = objects
            /\ contElems' = contElems ]_vars

\* C11 witness: RemoveElement with an absent id on a container that holds an
\* element under another id, in a Scene that owns a GameObject as well.
C11_Witness ==
    /\ scLast.op = "RemoveElement"
    /\ scLast.absent
    /\ scLast.deleted = {}
    /\ \E c \in OwnedUIs : Pointees(contElems[c]) # {}
    /\ OwnedObjects # {}

\* C12: in every Scene.Draw() every Draw() on an owned GameObject comes before
\* every Draw() on an owned UIContainer, and the UIContainers drawn come in
\* ascending draw_order.
C12_ObjectsThenUIsAscending ==
    scLast.op = "Draw" =>
        LET d == scLast.drew IN
        /\ \A i, j \in 1..Len(d) :
              (d[i] \in OwnedObjects /\ d[j] \in OwnedUIs) => i < j
        /\ \A i, j \in 1..Len(d) :
              (i < j /\ d[i] \in OwnedUIs /\ d[j] \in OwnedUIs)
                  => contOrder[d[i]] <= contOrder[d[j]]

\* C12 witness: a Draw() of a Scene with a GameObject and two UIContainers,
\* where the container with the later id has the lower draw_order and is
\* drawn first.
C12_Witness ==
    /\ scLast.op = "Draw"
    /\ \E i \in 1..Len(scLast.drew) : scLast.drew[i] \in OwnedObjects
    /\ \E k1, k2 \in DOMAIN interfaces :
          /\ KeyRank(k1) < KeyRank(k2)
          /\ contOrder[interfaces[k2]] < contOrder[interfaces[k1]]
          /\ \E i, j \in 1..Len(scLast.drew) :
                /\ i < j
                /\ scLast.drew[i] = interfaces[k2]
                /\ scLast.drew[j] = interfaces[k1]

\* C13: one Scene.Draw() invokes Draw() exactly once on every owned
\* GameObject and on every owned UIContainer, whatever value the container
\* was given through UIContainer.SetDrawOrder.
C13_DrawDrawsEveryChild ==
    scLast.op = "Draw" =>
        \A o \in OwnedObjects \cup OwnedUIs : Count(scLast.drew, o) = 1

\* C14: one Scene.Update() invokes Update() exactly once on every owned
\* GameObject and exactly once on every owned UIContainer (whatever its
\* draw_order), all GameObject updates ahead of all UIContainer updates.
C14_UpdateAllObjectsThenUIs ==
    scLast.op = "Update" =>
        LET u == scLast.updated IN
        /\ \A o \in OwnedObjects \cup OwnedUIs : Count(u, o) = 1
        /\ \A i \in 1..Len(u) : u[i] \in OwnedObjects \cup OwnedUIs
        /\ \A i, j \in 1..Len(u) :
              (u[i] \in OwnedObjects /\ u[j] \in OwnedUIs) => i < j

\* C14 witness: an Update() of a Scene with a GameObject and a UIContainer
\* whose draw_order lies outside [-100, 100] (so Draw() would pass it over).
C14_Witness ==
    /\ scLast.op = "Update"
    /\ OwnedObjects # {}
    /\ \E c \in OwnedUIs :
          /\ contOrder[c] > MAX_DRAW_ORDER
          /\ Count(scLast.updated, c) = 1

\* ------------------------------------------------------------------------
\* Claims about AnimatedTexture
\* ------------------------------------------------------------------------
\* Time elapsed since the last frame change, as Update() reads it
Elapsed == clock - tex.last_frame_change

\* The step is a call of op (a step that leaves the clock alone is a call,
\* and texLast names the last call)
TexCalled(op) == clock' = clock /\ texLast'.op = op

\* C15: in every reachable state of a texture with frame_count >= 1,
\* 0 <= current_frame < frame_count.
C15_FrameInRange ==
    tex.frame_count >= 1 =>
        (0 <= tex.current_frame /\ tex.current_frame < tex.frame_count)

\* C15 witness: an Update() of a playing three-frame texture has wrapped the
\* frame index from the last frame back to 0.
C15_Witness ==
    /\ texLast.op = "Update"
    /\ tex.frame_count = 3
    /\ texLast.frame = 2
    /\ tex.current_frame = 0

\* C16: Update() on a playing, initialized texture advances current_frame by
\* 1 modulo frame_count and resets the timer whenever the elapsed time is
\* greater than or equal to the per-frame duration (exactly equal included),
\* and changes nothing when it is smaller.
C16_UpdateAdvancesWhenDue ==
    [][ (TexCalled("Update") /\ tex.play /\ tex.initialized) =>
            IF Elapsed >= tex.ms_per_frame
            THEN /\ tex'.current_frame =
                        (tex.current_frame + 1) % tex.frame_count
                 /\ tex'.last_frame_change = clock
            ELSE tex' = tex ]_vars

\* C17: before Initialize() has been called, Update() leaves current_frame
\* and last_frame_change unchanged and Draw() issues no draw call, for any
\* elapsed time and any play state.
C17_NoOpBeforeInitialize ==
    [][ ~texInitCalled =>
            /\ TexCalled("Update") =>
                  /\ tex'.current_frame = tex.current_frame
                  /\ tex'.last_frame_change = tex.last_frame_change
            /\ TexCalled("Draw") => ~texLast'.drew ]_vars

\* C18: a texture begins paused: after construction with any arguments and
\* Initialize(), no Update() changes current_frame until Play() or Resume()
\* has been called.
C18_BeginsPaused ==
    [][ (texCtor = "args" /\ texInitCalled /\ ~texPlayCalled
         /\ TexCalled("Update")) =>
            tex'.current_frame = tex.current_frame ]_vars

\* C19: immediately after Pause() followed by Play(), current_frame is 0,
\* whatever frame was showing when the texture was paused.
C19_PlayAfterPauseRestarts ==
    [][ (texLast.op = "Pause" /\ TexCalled("Play")) =>
            tex'.current_frame = 0 ]_vars

C21_AtMostOneAdvancePerFrameTime ==
    /\ texLast.op = "Update" =>
           tex.current_frame \in
               {texLast.frame, (texLast.frame + 1) % tex.frame_count}
    /\ texRun.gap >= 0 => texRun.gap >= tex.ms_per_frame
    /\ tex.ms_per_frame > 0 => texRun.advances <= clock \div tex.ms_per_frame
    /\ tex.current_frame = texRun.advances % tex.frame_count
    /\ (tex.frame_count = 4 /\ tex.ms_per_frame = 100 /\ tex.loop
            /\ texRun.polls >= 0) =>
           /\ texRun.advances = IF texRun.polls >= 15 THEN 2
                                ELSE IF texRun.polls >= 8 THEN 1 ELSE 0
           /\ texRun.polls = 16 => tex.current_frame = 2

\* the 16th poll of the 4-frame, 10 fps texture has been made
C21_Witness ==
    /\ tex.frame_count = 4
    /\ tex.ms_per_frame = 100
    /\ texRun.polls = 16
    /\ texRun.advances = 2
    /\ tex.current_frame = 2
    /\ texLast.op = "Update"

BtnCalled(op) == mouse' = mouse /\ btnLast'.op = op

\* C22: an Update() of an enabled Button that sees the cursor inside the
\* hitbox and the left button going down leaves IsHover() and IsPressed()
\* true; an Update() of a pressed Button that sees the cursor inside and the
\* left button up invokes the callback the Button holds and leaves IsPressed()
\* false; an Update() of a Button that is not pressed invokes no callback, and
\* it leaves the Button pressed only when it sees a new click on the hitbox.
C22_ClickThenReleaseFiresOnce ==
    [][(BtnCalled("Update") /\ button.enabled) =>
          /\ (mouse.inside /\ mouse.pressed) =>
                 (button'.hover /\ button'.press)
          /\ (button.press /\ mouse.inside /\ ~mouse.down) =>
                 (btnLast'.fired = button.callbackFunction /\ ~button'.press)
          /\ ~button.press =>
                 /\ btnLast'.fired = "none"
                 /\ button'.press => (mouse.inside /\ mouse.pressed)]_vars

\* Update() has just seen the release over the hitbox of a pressed Button: it
\* invoked the registered callback and the Button is no longer pressed
C22_Witness ==
    /\ btnLast.op = "Update"
    /\ btnLast.fired = "OnClick"
    /\ btnPressWas
    /\ ~button.press
    /\ button.hover
    /\ mouse.inside
    /\ ~mouse.down

\* C23: an Update() of an enabled, pressed Button that finds the cursor
\* outside the hitbox while the left button is still held clears press and
\* invokes no callback; a Button that is not pressed invokes no callback in
\* Update(), whatever the mouse does, so the later release invokes none.
C23_LeavingCancelsPress ==
    [][(BtnCalled("Update") /\ button.enabled) =>
          /\ (button.press /\ ~mouse.inside /\ mouse.down) =>
                 (~button'.press /\ btnLast'.fired = "none")
          /\ (~button.press /\ ~mouse.down) =>
                 (~button'.press /\ btnLast'.fired = "none")]_vars

\* Update() has just found the cursor outside the hitbox of a pressed Button
\* with the left button held: press is cleared, no callback was invoked
C23_Witness ==
    /\ btnLast.op = "Update"
    /\ btnLast.fired = "none"
    /\ button.enabled
    /\ btnPressWas
    /\ ~button.press
    /\ ~button.hover
    /\ ~mouse.inside
    /\ mouse.down

\* C24: IsReleased() returns true exactly when the Button is not pressed in
\* the current update cycle but was pressed in the previous one (press was
\* true when the last Update() began and is false now), as right after the
\* Update() that saw the release.
C24_IsReleasedAfterRelease ==
    btnLast.op = "IsReleased" =>
        (btnLast.result <=> (btnPressWas /\ ~button.press))

\* C25: Update() on a disabled Button changes neither hover nor press and
\* invokes no callback; no call changes press while the Button is disabled,
\* so a Button disabled while pressed stays pressed until it is enabled.
C25_DisabledUpdateIsNoOp ==
    [][/\ (BtnCalled("Update") /\ ~button.enabled) =>
              (button' = button /\ btnLast'.fired = "none")
       /\ ~button.enabled => button'.press = button.press]_vars

\* Update() has just run on a Button disabled while pressed, with the left
\* button released and the cursor gone: it is still pressed and hovered
C25_Witness ==
    /\ btnLast.op = "Update"
    /\ btnLast.fired = "none"
    /\ ~button.enabled
    /\ button.press
    /\ button.hover
    /\ ~mouse.down
    /\ ~mouse.inside

\* C28: Update() invokes the callback only when it finds the cursor inside
\* the hitbox: a release seen by the Update() that also finds the cursor gone
\* invokes nothing.
C28_CallbackOnlyInsideHitbox ==
    [][(BtnCalled("Update") /\ btnLast'.fired # "none") => mouse.inside]_vars

\* C29: after an Update() of an enabled Button, IsPressed() implies IsHover().
C29_PressedImpliesHover ==
    (btnLast.op = "Update" /\ button.enabled) =>
        (button.press => button.hover)

\* Update() has just left an enabled Button pressed, the click seen and the
\* left button held
C29_Witness ==
    /\ btnLast.op = "Update"
    /\ button.enabled
    /\ button.press
    /\ button.hover
    /\ mouse.down
    /\ mouse.pressed
    /\ ~btnPressWas

\* ------------------------------------------------------------------------
\* Claims about adding under an id in use
\* ------------------------------------------------------------------------
\* An Add call on map m handing over object o kept what every id of m
\* referred to; when it added no id (the id was in use), o is not in the map
KeptFirst(m, mAfter, o) ==
    /\ \A k \in DOMAIN m : k \in DOMAIN mAfter /\ mAfter[k] = m[k]
    /\ DOMAIN mAfter = DOMAIN m => o \notin Pointees(mAfter)

C30_FrameEventuallyChanges ==
    \A f \in 0..2 :
        (tex.initialized /\ tex.play /\ tex.current_frame = f)
            ~> (tex.current_frame # f)

============================================================================
